---- MODULE Spec2Model ----
(***************************************************************************)
(* Organizador (src/Organizador/app.js): the record store of tasks and     *)
(* expenses, its localStorage persistence and the derived views (filter,   *)
(* sort, statistics).                                                      *)
(*                                                                         *)
(* Representation.                                                         *)
(*  - A JavaScript string is a sequence of one-character strings, so that  *)
(*    trim, toLowerCase, includes and localeCompare are computed.  The     *)
(*    element "o'" stands for the accented letter o of 'programacion'.     *)
(*  - A JavaScript value held in state.tasks / state.expenses is a record  *)
(*    [type, items]: an array, null, or another non-array value (a number, *)
(*    an object) as JSON.parse can return for a stored text.               *)
(*  - A localStorage cell is [kind, value]: absent, an unparseable text,   *)
(*    or the JSON text of a value.                                         *)
(*  - A date string YYYY-MM-DD is <<year, month, day>>; a month string     *)
(*    YYYY-MM is <<year, month>>; the empty string is <<>>.                *)
(*  - An amount typed in euros is an integer number of thousandths of a    *)
(*    euro (45.67 is 45670).                                               *)
(***************************************************************************)
EXTENDS Integers, Sequences, FiniteSets, TLC

VARIABLES
    tasks,           \* state.tasks
    expenses,        \* state.expenses
    taskSearch,      \* state.taskSearch
    expenseFilters,  \* state.expenseFilters: [category, month]
    storage,         \* localStorage, by key
    pc,              \* position of the page: start, loaded, ready, crashed, sort
    raised,          \* the operation an exception propagated out of, or ""
    nextId,          \* source of generateId: the next unused identifier
    now,             \* the clock: the number of events handled so far
    faulty,          \* whether localStorage.setItem may throw in this run
    lastOp           \* the last operation that ran, with its inputs

vars == <<tasks, expenses, taskSearch, expenseFilters, storage, pc, raised,
          nextId, now, faulty, lastOp>>

\* ---------------------------------------------------------------- bounds

MaxId == 9
MaxEvents == 4
MaxEventsFaulty == 3
MaxTasks == 4
MaxExpenses == 4
MaxSortLen == 3

\* ------------------------------------------------------------- constants

STORAGE_KEYS == [TASKS |-> "organizador_tasks", EXPENSES |-> "organizador_expenses"]

PRIORITIES == [ALTA |-> "alta", MEDIA |-> "media", BAJA |-> "baja"]

CATEGORIES == [FIJOS |-> "fijos", OCIO |-> "ocio", COMIDA |-> "comida",
               COCHE |-> "coche", EXTRAS |-> "extras"]

\* Object.values(CATEGORIES)
CategoryValues == {CATEGORIES[k] : k \in DOMAIN CATEGORIES}

PriorityValues == {PRIORITIES[k] : k \in DOMAIN PRIORITIES}

\* ----------------------------------------------------------------- text

LowerLetters == <<"a", "b", "c", "d", "e", "f", "g", "h", "i", "j", "k", "l", "m",
                  "n", "o", "p", "q", "r", "s", "t", "u", "v", "w", "x", "y", "z">>

UpperLetters == <<"A", "B", "C", "D", "E", "F", "G", "H", "I", "J", "K", "L", "M",
                  "N", "O", "P", "Q", "R", "S", "T", "U", "V", "W", "X", "Y", "Z">>

IndexIn(seq, c) == IF \E i \in DOMAIN seq : seq[i] = c
                   THEN CHOOSE i \in DOMAIN seq : seq[i] = c
                   ELSE 0

\* the characters of the texts of this model
Chars == {LowerLetters[i] : i \in DOMAIN LowerLetters}
         \cup {UpperLetters[i] : i \in DOMAIN UpperLetters} \cup {" ", "o'"}

LowerTable == [c \in Chars |-> IF IndexIn(UpperLetters, c) > 0
                               THEN LowerLetters[IndexIn(UpperLetters, c)]
                               ELSE c]

\* String.prototype.toLowerCase, one character
LowerChar(c) == LowerTable[c]

\* String.prototype.toLowerCase
toLowerCase(s) == [i \in DOMAIN s |-> LowerChar(s[i])]

IsSpace(c) == c = " "

RECURSIVE trimStart(_)
trimStart(s) == IF s # <<>> /\ IsSpace(Head(s)) THEN trimStart(Tail(s)) ELSE s

RECURSIVE trimEnd(_)
trimEnd(s) == IF s # <<>> /\ IsSpace(s[Len(s)])
              THEN trimEnd(SubSeq(s, 1, Len(s) - 1))
              ELSE s

\* String.prototype.trim
trim(s) == trimEnd(trimStart(s))

\* String.prototype.startsWith
startsWith(s, prefix) ==
    /\ Len(prefix) <= Len(s)
    /\ SubSeq(s, 1, Len(prefix)) = prefix

\* String.prototype.includes
includes(s, sub) ==
    \E i \in 0..Len(s) :
        /\ i + Len(sub) <= Len(s)
        /\ SubSeq(s, i + 1, i + Len(sub)) = sub

\* Collation weights of a character (the engine's locale collation: letters
\* compare first by base letter, then by accent, then lower case before
\* upper case; a space sorts before every letter).
PrimaryTable == [c \in Chars |->
                    IF IsSpace(c) THEN 0
                    ELSE IF c = "o'" THEN IndexIn(LowerLetters, "o")
                    ELSE IndexIn(LowerLetters, LowerTable[c])]

TertiaryTable == [c \in Chars |-> IF IndexIn(UpperLetters, c) > 0 THEN 1 ELSE 0]

PrimaryWeight(c) == PrimaryTable[c]

SecondaryWeight(c) == IF c = "o'" THEN 1 ELSE 0

TertiaryWeight(c) == TertiaryTable[c]

\* Lexicographic comparison of two sequences of numbers: -1, 0 or 1.
RECURSIVE LexCompare(_, _)
LexCompare(x, y) ==
    IF x = <<>> /\ y = <<>> THEN 0
    ELSE IF x = <<>> THEN -1
    ELSE IF y = <<>> THEN 1
    ELSE IF Head(x) < Head(y) THEN -1
    ELSE IF Head(x) > Head(y) THEN 1
    ELSE LexCompare(Tail(x), Tail(y))

\* String.prototype.localeCompare: negative, zero or positive.
localeCompare(a, b) ==
    LET p == LexCompare([i \in DOMAIN a |-> PrimaryWeight(a[i])],
                        [i \in DOMAIN b |-> PrimaryWeight(b[i])])
        s == LexCompare([i \in DOMAIN a |-> SecondaryWeight(a[i])],
                        [i \in DOMAIN b |-> SecondaryWeight(b[i])])
        t == LexCompare([i \in DOMAIN a |-> TertiaryWeight(a[i])],
                        [i \in DOMAIN b |-> TertiaryWeight(b[i])])
    IN IF p # 0 THEN p ELSE IF s # 0 THEN s ELSE t

\* ---------------------------------------------------------------- dates

IsLeapYear(y) == (y % 4 = 0 /\ y % 100 # 0) \/ y % 400 = 0

DaysInMonth(y, m) ==
    IF m = 2 THEN (IF IsLeapYear(y) THEN 29 ELSE 28)
    ELSE IF m \in {4, 6, 9, 11} THEN 30
    ELSE 31

\* Date.prototype.setDate(getDate() - n), on <<year, month, day>>
RECURSIVE daysBefore(_, _)
daysBefore(date, n) ==
    IF n = 0 THEN date
    ELSE IF date[3] > 1 THEN daysBefore(<<date[1], date[2], date[3] - 1>>, n - 1)
    ELSE IF date[2] > 1
         THEN daysBefore(<<date[1], date[2] - 1, DaysInMonth(date[1], date[2] - 1)>>, n - 1)
    ELSE daysBefore(<<date[1] - 1, 12, 31>>, n - 1)

\* new Date(): the day the page runs
Today == <<2024, 3, 15>>

\* new Date(dateISO) as a number: later dates are larger
dateValue(d) == (d[1] * 12 + (d[2] - 1)) * 31 + (d[3] - 1)

\* dateToISO: a date-only string is read as UTC midnight and printed in UTC
dateToISO(date) == <<date[1], date[2], date[3]>>

\* getCurrentMonth
getCurrentMonth == <<Today[1], Today[2]>>

\* ---------------------------------------------------------------- money

\* eurosToCents: Math.round(parseFloat(euros) * 100), on thousandths of a
\* euro.  Away from a half cent the binary product rounds as the decimal
\* one does; exactly on a half cent the double nearest the product lies on
\* either side (1.005 * 100 is 100.49999999999999, 0.125 * 100 is 12.5), so
\* both neighbours are outcomes.
eurosToCentsTruncating(milli) == {milli \div 10}
eurosToCents(milli) ==
    IF milli % 10 = 5
    THEN {milli \div 10, milli \div 10 + 1}
    ELSE {(milli + 5) \div 10}

\* ------------------------------------------------------ JavaScript values

Arr(s) == [type |-> "array", items |-> s]

JSNull == [type |-> "null", items |-> <<>>]

\* a value that is neither null nor an array and has no length: 5, {}, true
JSOther == [type |-> "other", items |-> <<>>]

IsArray(v) == v.type = "array"

\* ------------------------------------------------------------ localStorage

Absent == [kind |-> "absent", value |-> JSNull]

\* a stored text that JSON.parse rejects
Corrupt == [kind |-> "corrupt", value |-> JSNull]

\* JSON.stringify: the text of a value
JSONstringify(data) == [kind |-> "json", value |-> data]

\* saveToStorage: setItem throws when ok is FALSE and the catch logs it
saveToStorage(store, key, data, ok) ==
    IF ok THEN [store EXCEPT ![key] = JSONstringify(data)] ELSE store

\* loadFromStorage with the default value []: getItem gives null for an
\* absent key, JSON.parse throws on an unparseable text
loadFromStorage(store, key) ==
    IF store[key].kind = "json" THEN store[key].value ELSE Arr(<<>>)

\* saveState
saveState(store, t, e, ok1, ok2) ==
    saveToStorage(saveToStorage(store, STORAGE_KEYS.TASKS, t, ok1),
                  STORAGE_KEYS.EXPENSES, e, ok2)

\* outcomes of one localStorage.setItem
WriteOutcomes == IF faulty THEN BOOLEAN ELSE {TRUE}

\* ------------------------------------------------------------ sample data

TextRevisar == <<"R", "e", "v", "i", "s", "a", "r", " ", "p", "r", "e", "s", "u", "p",
                 "u", "e", "s", "t", "o", " ", "m", "e", "n", "s", "u", "a", "l">>

TextEjercicio == <<"H", "a", "c", "e", "r", " ", "e", "j", "e", "r", "c", "i", "c", "i", "o">>

TextLeer == <<"L", "e", "e", "r", " ", "l", "i", "b", "r", "o", " ", "d", "e", " ", "p",
              "r", "o", "g", "r", "a", "m", "a", "c", "i", "o'", "n">>

TextSupermercado == <<"S", "u", "p", "e", "r", "m", "e", "r", "c", "a", "d", "o">>

TextGasolina == <<"G", "a", "s", "o", "l", "i", "n", "a">>

TextNetflix == <<"N", "e", "t", "f", "l", "i", "x">>

\* the array loadSampleTasks builds; id0 is the first of its three fresh ids
sampleTasks(id0, at) ==
    << [id |-> id0, text |-> TextRevisar, priority |-> PRIORITIES.ALTA,
        done |-> FALSE, createdAt |-> at],
       [id |-> id0 + 1, text |-> TextEjercicio, priority |-> PRIORITIES.MEDIA,
        done |-> FALSE, createdAt |-> at],
       [id |-> id0 + 2, text |-> TextLeer, priority |-> PRIORITIES.BAJA,
        done |-> FALSE, createdAt |-> at] >>

\* the array loadSampleExpenses builds
sampleExpenses(id0) ==
    << [id |-> id0, description |-> TextSupermercado, amountCents |-> 4567,
        category |-> CATEGORIES.COMIDA, dateISO |-> dateToISO(Today)],
       [id |-> id0 + 1, description |-> TextGasolina, amountCents |-> 6500,
        category |-> CATEGORIES.COCHE, dateISO |-> dateToISO(daysBefore(Today, 1))],
       [id |-> id0 + 2, description |-> TextNetflix, amountCents |-> 1599,
        category |-> CATEGORIES.OCIO, dateISO |-> dateToISO(daysBefore(Today, 7))] >>

\* ------------------------------------------------------------------ tasks

priorityOrder == [p \in PriorityValues |->
                    IF p = PRIORITIES.ALTA THEN 3
                    ELSE IF p = PRIORITIES.MEDIA THEN 2 ELSE 1]

\* the comparator sortTasks passes to Array.prototype.sort
taskCompareAscending(a, b) ==
    IF a.done # b.done THEN (IF a.done THEN 1 ELSE -1)
    ELSE IF a.priority # b.priority
         THEN priorityOrder[a.priority] - priorityOrder[b.priority]
    ELSE localeCompare(a.text, b.text)
taskCompare(a, b) ==
    IF a.done # b.done THEN (IF a.done THEN 1 ELSE -1)
    ELSE IF a.priority # b.priority
         THEN priorityOrder[b.priority] - priorityOrder[a.priority]
    ELSE localeCompare(a.text, b.text)

\* Array.prototype.sort is stable: an element goes before the first one it
\* compares less than
RECURSIVE insertTask(_, _)
insertTask(sorted, x) ==
    IF sorted = <<>> THEN <<x>>
    ELSE IF taskCompare(x, Head(sorted)) < 0 THEN <<x>> \o sorted
    ELSE <<Head(sorted)>> \o insertTask(Tail(sorted), x)

RECURSIVE sortTasksFrom(_, _)
sortTasksFrom(sorted, rest) ==
    IF rest = <<>> THEN sorted
    ELSE sortTasksFrom(insertTask(sorted, Head(rest)), Tail(rest))

\* sortTasks: the array it is given, sorted (in place)
sortTasks(items) == sortTasksFrom(<<>>, items)

\* renderTasks, the list it shows: the search filter, then sortTasks
renderedTasks(items, search) ==
    LET matches(t) == includes(toLowerCase(t.text), search)
    IN IF search # <<>> THEN sortTasks(SelectSeq(items, matches))
       ELSE sortTasks(items)

\* renderTasks, what it leaves in state.tasks: with no search text the array
\* handed to sortTasks is state.tasks itself
tasksAfterRender(items, search) ==
    IF search # <<>> THEN items ELSE sortTasks(items)

\* A variant of the count that takes every task as completed.
countDoneAll(items) == Len(items)

\* state.tasks.filter(t => t.done).length
RECURSIVE countDone(_)
countDone(items) ==
    IF items = <<>> THEN 0
    ELSE (IF Head(items).done THEN 1 ELSE 0) + countDone(Tail(items))

\* calculateTaskStats
calculateTaskStats(items) ==
    [total |-> Len(items),
     completed |-> countDone(items),
     pending |-> Len(items) - countDone(items)]

\* state.tasks.filter(t => t.id !== id)
removeByIdInverted(items, id) ==
    LET keep(r) == r.id = id
    IN SelectSeq(items, keep)
removeById(items, id) ==
    LET keep(r) == r.id # id
    IN SelectSeq(items, keep)

\* state.tasks.find(t => t.id === id) followed by task.done = !task.done
toggleDone(items, id) ==
    IF \E i \in DOMAIN items : items[i].id = id
    THEN LET k == CHOOSE i \in DOMAIN items :
                     /\ items[i].id = id
                     /\ \A j \in 1..(i - 1) : items[j].id # id
         IN [items EXCEPT ![k].done = ~items[k].done]
    ELSE items

hasId(items, id) == \E i \in DOMAIN items : items[i].id = id

\* --------------------------------------------------------------- expenses

\* the comparator getFilteredExpenses passes to Array.prototype.sort
expenseCompare(a, b) == dateValue(b.dateISO) - dateValue(a.dateISO)

RECURSIVE insertExpense(_, _)
insertExpense(sorted, x) ==
    IF sorted = <<>> THEN <<x>>
    ELSE IF expenseCompare(x, Head(sorted)) < 0 THEN <<x>> \o sorted
    ELSE <<Head(sorted)>> \o insertExpense(Tail(sorted), x)

RECURSIVE sortExpensesFrom(_, _)
sortExpensesFrom(sorted, rest) ==
    IF rest = <<>> THEN sorted
    ELSE sortExpensesFrom(insertExpense(sorted, Head(rest)), Tail(rest))

sortExpenses(items) == sortExpensesFrom(<<>>, items)

\* getFilteredExpenses, the list it returns
getFilteredExpensesNoMonth(items, filters) ==
    LET byCategory(e) == e.category = filters.category
        f1 == IF filters.category # "" THEN SelectSeq(items, byCategory) ELSE items
    IN sortExpenses(f1)
getFilteredExpenses(items, filters) ==
    LET byCategory(e) == e.category = filters.category
        byMonth(e) == startsWith(e.dateISO, filters.month)
        f1 == IF filters.category # "" THEN SelectSeq(items, byCategory) ELSE items
        f2 == IF filters.month # <<>> THEN SelectSeq(f1, byMonth) ELSE f1
    IN sortExpenses(f2)

\* getFilteredExpenses, what it leaves in state.expenses: with no filter set
\* the array it sorts is state.expenses itself
expensesAfterView(items, filters) ==
    IF filters.category = "" /\ filters.month = <<>>
    THEN sortExpenses(items)
    ELSE items

\* reduce((sum, e) => sum + e.amountCents, 0)
RECURSIVE sumAmounts(_, _)
sumAmounts(sum, items) ==
    IF items = <<>> THEN sum
    ELSE sumAmounts(sum + Head(items).amountCents, Tail(items))

\* calculateExpenseStats
calculateExpenseStatsFiltered(items, filters) ==
    LET inMonth(e) == startsWith(e.dateISO, getCurrentMonth)
    IN [total |-> sumAmounts(0, getFilteredExpenses(items, filters)),
        monthly |-> sumAmounts(0, SelectSeq(items, inMonth))]
calculateExpenseStats(items, filters) ==
    LET inMonth(e) == startsWith(e.dateISO, getCurrentMonth)
    IN [total |-> sumAmounts(0, items),
        monthly |-> sumAmounts(0, SelectSeq(items, inMonth))]

\* filteredExpenses.forEach(expense => totals[expense.category] += ...)
RECURSIVE addToTotals(_, _)
addToTotals(totals, items) ==
    IF items = <<>> THEN totals
    ELSE addToTotals(
            [totals EXCEPT ![Head(items).category] = @ + Head(items).amountCents],
            Tail(items))

\* calculateCategoryTotals
calculateCategoryTotals(items, filters) ==
    addToTotals([c \in CategoryValues |-> 0], getFilteredExpenses(items, filters))

\* confirmAction: the answer the user gives to confirm()
confirmActionAlways(answer) == TRUE
confirmAction(answer) == answer

\* ----------------------------------------------------------------- inputs

\* what the task form is submitted with: task-text and task-priority
TaskFormInputs ==
    { [text |-> <<"a", "b">>, priority |-> PRIORITIES.ALTA],
      [text |-> <<" ", "B", " ">>, priority |-> PRIORITIES.BAJA],
      [text |-> <<"a", "b">>, priority |-> PRIORITIES.MEDIA] }

\* what is typed in task-search
SearchInputs == { <<>>, <<"B">> }

\* what the expense form is submitted with
ExpenseFormInputs ==
    { [description |-> <<"x">>, amount |-> 45670,
       category |-> CATEGORIES.COMIDA, date |-> <<2024, 3, 15>>],
      [description |-> <<"x">>, amount |-> 65000,
       category |-> CATEGORIES.COCHE, date |-> <<2024, 4, 2>>],
      [description |-> <<" ", "y">>, amount |-> 15999,
       category |-> CATEGORIES.OCIO, date |-> <<2024, 3, 1>>],
      [description |-> <<"x">>, amount |-> 1005,
       category |-> CATEGORIES.COMIDA, date |-> <<2024, 4, 2>>] }

\* the choices of category-filter and month-filter
CategoryFilterInputs == {"", CATEGORIES.COMIDA, CATEGORIES.OCIO}

MonthFilterInputs == { <<>>, <<2024, 3>>, <<2024, 4>> }

\* the ids toggleTask, deleteTask and deleteExpense are called with
IdInputs == 1..MaxId

\* what a key of localStorage holds when the page is first opened
InitialCells == {Absent, Corrupt, JSONstringify(Arr(<<>>))}

InitialCellsFaulty ==
    InitialCells \cup {JSONstringify(JSNull), JSONstringify(JSOther)}

\* ------------------------------------------------------------------ state

NoFilters == [category |-> "", month |-> <<>>]

Op(name) == [name |-> name, flag |-> FALSE, input |-> <<>>]

\* an event is handled: the clock advances
Tick ==
    /\ now < (IF faulty THEN MaxEventsFaulty ELSE MaxEvents)
    /\ now' = now + 1

\* the module-level state object, before initializeApp has run
InitState ==
    /\ tasks = Arr(<<>>)
    /\ expenses = Arr(<<>>)
    /\ taskSearch = <<>>
    /\ expenseFilters = NoFilters
    /\ pc = "start"
    /\ raised = ""
    /\ nextId = 1
    /\ now = 0
    /\ lastOp = Op("none")

Init ==
    /\ InitState
    /\ faulty = FALSE
    /\ storage \in [{STORAGE_KEYS.TASKS, STORAGE_KEYS.EXPENSES} -> InitialCells]

InitFaulty ==
    /\ InitState
    /\ faulty = TRUE
    /\ storage \in [{STORAGE_KEYS.TASKS, STORAGE_KEYS.EXPENSES} -> InitialCellsFaulty]

\* the listeners of initializeEventListeners are installed
FormsLive == pc = "ready"

\* toggleTask and deleteTask are on window from the start and the rendered
\* task list calls them, also when initializeApp stopped in renderExpenses
TaskButtonsLive == pc = "ready" \/ (pc = "crashed" /\ raised = "renderExpenses")

\* ---------------------------------------------------------------- actions

\* A variant of the length test that never asks for the samples.
seedNeededNever(v) == FALSE

\* state.tasks.length === 0 : the loaded value is a list with no elements.
seedNeeded(v) == IsArray(v) /\ Len(v.items) = 0

\* The page is opened or reloaded: the state object is created anew and
\* initializeApp calls loadState.
loadState ==
    /\ pc \in {"start", "ready", "crashed"}
    /\ \E w1, w2 \in WriteOutcomes :
        LET t0 == loadFromStorage(storage, STORAGE_KEYS.TASKS)
            e0 == loadFromStorage(storage, STORAGE_KEYS.EXPENSES)
            seedT == t0.type # "null" /\ seedNeeded(t0)
            t1 == IF seedT THEN Arr(sampleTasks(nextId, now)) ELSE t0
            s1 == IF seedT
                  THEN saveToStorage(storage, STORAGE_KEYS.TASKS, t1, w1)
                  ELSE storage
            n1 == IF seedT THEN nextId + 3 ELSE nextId
            seedE == t0.type # "null" /\ e0.type # "null" /\ seedNeeded(e0)
            e1 == IF seedE THEN Arr(sampleExpenses(n1)) ELSE e0
            s2 == IF seedE
                  THEN saveToStorage(s1, STORAGE_KEYS.EXPENSES, e1, w2)
                  ELSE s1
            n2 == IF seedE THEN n1 + 3 ELSE n1
            threw == t0.type = "null" \/ e0.type = "null"
        IN /\ n2 - 1 <= MaxId
           /\ (seedT \/ w1) /\ (seedE \/ w2)
           /\ tasks' = t1
           /\ expenses' = e1
           /\ storage' = s2
           /\ nextId' = n2
           /\ pc' = IF threw THEN "crashed" ELSE "loaded"
           /\ raised' = IF threw THEN "loadState" ELSE ""
           /\ lastOp' = [Op("loadState") EXCEPT !.flag = seedT]
    /\ taskSearch' = <<>>
    /\ expenseFilters' = NoFilters
    /\ Tick
    /\ UNCHANGED faulty

\* The rest of initializeApp: renderTasks, updateTaskStats, renderExpenses,
\* updateExpenseStats, renderCategoryTotals, initializeEventListeners.
initializeApp ==
    /\ pc = "loaded"
    /\ IF ~IsArray(tasks)
       THEN /\ pc' = "crashed"
            /\ raised' = "renderTasks"
            /\ UNCHANGED <<tasks, expenses>>
       ELSE /\ tasks' = Arr(tasksAfterRender(tasks.items, taskSearch))
            /\ IF ~IsArray(expenses)
               THEN /\ pc' = "crashed"
                    /\ raised' = "renderExpenses"
                    /\ UNCHANGED expenses
               ELSE /\ expenses' = Arr(expensesAfterView(expenses.items, expenseFilters))
                    /\ pc' = "ready"
                    /\ raised' = ""
    /\ lastOp' = Op("initializeApp")
    /\ UNCHANGED <<taskSearch, expenseFilters, storage, nextId, now, faulty>>

\* The task form is submitted with a non-empty text: addTask(text, priority).
addTask(form) ==
    /\ FormsLive
    /\ trim(form.text) # <<>>
    /\ nextId <= MaxId
    /\ Len(tasks.items) < MaxTasks
    /\ \E w1, w2 \in WriteOutcomes :
        LET task == [id |-> nextId, text |-> trim(trim(form.text)),
                     priority |-> form.priority, done |-> FALSE,
                     createdAt |-> now]
            pushed == Append(tasks.items, task)
        IN /\ storage' = saveState(storage, Arr(pushed), expenses, w1, w2)
           /\ tasks' = Arr(tasksAfterRender(pushed, taskSearch))
           /\ lastOp' = Op("addTask")
    /\ nextId' = nextId + 1
    /\ Tick
    /\ UNCHANGED <<expenses, taskSearch, expenseFilters, pc, raised, faulty>>

\* toggleTask(id)
toggleTask(id) ==
    /\ TaskButtonsLive
    /\ IF hasId(tasks.items, id)
       THEN \E w1, w2 \in WriteOutcomes :
              LET toggled == toggleDone(tasks.items, id)
              IN /\ storage' = saveState(storage, Arr(toggled), expenses, w1, w2)
                 /\ tasks' = Arr(tasksAfterRender(toggled, taskSearch))
                 /\ lastOp' = [Op("toggleTask") EXCEPT !.flag = TRUE]
       ELSE /\ lastOp' = Op("toggleTask")
            /\ UNCHANGED <<tasks, storage>>
    /\ Tick
    /\ UNCHANGED <<expenses, taskSearch, expenseFilters, pc, raised, nextId, faulty>>

\* deleteTask(id)
deleteTask(id) ==
    /\ TaskButtonsLive
    /\ \E w1, w2 \in WriteOutcomes :
        LET kept == removeById(tasks.items, id)
        IN /\ storage' = saveState(storage, Arr(kept), expenses, w1, w2)
           /\ tasks' = Arr(tasksAfterRender(kept, taskSearch))
           /\ lastOp' = [Op("deleteTask") EXCEPT !.flag = hasId(tasks.items, id)]
    /\ Tick
    /\ UNCHANGED <<expenses, taskSearch, expenseFilters, pc, raised, nextId, faulty>>

\* Text is typed in task-search: filterTasks(searchText).
filterTasks(searchText) ==
    /\ FormsLive
    /\ taskSearch' = toLowerCase(searchText)
    /\ tasks' = Arr(tasksAfterRender(tasks.items, taskSearch'))
    /\ lastOp' = Op("filterTasks")
    /\ Tick
    /\ UNCHANGED <<expenses, expenseFilters, storage, pc, raised, nextId, faulty>>

\* The expense form is submitted with a description, an amount and a date:
\* addExpense(description, amount, category, date).
addExpense(form) ==
    /\ FormsLive
    /\ trim(form.description) # <<>>
    /\ nextId <= MaxId
    /\ Len(expenses.items) < MaxExpenses
    /\ \E w1, w2 \in WriteOutcomes : \E cents \in eurosToCents(form.amount) :
        LET expense == [id |-> nextId,
                        description |-> trim(trim(form.description)),
                        amountCents |-> cents,
                        category |-> form.category,
                        dateISO |-> dateToISO(form.date)]
            pushed == Append(expenses.items, expense)
        IN /\ storage' = saveState(storage, tasks, Arr(pushed), w1, w2)
           /\ expenses' = Arr(expensesAfterView(pushed, expenseFilters))
           /\ lastOp' = [Op("addExpense") EXCEPT !.input = form]
    /\ nextId' = nextId + 1
    /\ Tick
    /\ UNCHANGED <<tasks, taskSearch, expenseFilters, pc, raised, faulty>>

\* deleteExpense(id)
deleteExpense(id) ==
    /\ FormsLive
    /\ \E w1, w2 \in WriteOutcomes :
        LET kept == removeById(expenses.items, id)
        IN /\ storage' = saveState(storage, tasks, Arr(kept), w1, w2)
           /\ expenses' = Arr(expensesAfterView(kept, expenseFilters))
           /\ lastOp' = [Op("deleteExpense") EXCEPT !.flag = hasId(expenses.items, id)]
    /\ Tick
    /\ UNCHANGED <<tasks, taskSearch, expenseFilters, pc, raised, nextId, faulty>>

\* filterExpenses(category, month): what it does to the state
filterExpenses(category, month) ==
    /\ expenseFilters' = [category |-> category, month |-> month]
    /\ expenses' = Arr(expensesAfterView(expenses.items, expenseFilters'))

\* category-filter changes
categoryFilterChange(category) ==
    /\ FormsLive
    /\ filterExpenses(category, expenseFilters.month)
    /\ lastOp' = Op("filterExpenses")
    /\ Tick
    /\ UNCHANGED <<tasks, taskSearch, storage, pc, raised, nextId, faulty>>

\* month-filter changes
monthFilterChange(month) ==
    /\ FormsLive
    /\ filterExpenses(expenseFilters.category, month)
    /\ lastOp' = Op("filterExpenses")
    /\ Tick
    /\ UNCHANGED <<tasks, taskSearch, storage, pc, raised, nextId, faulty>>

\* The Escape key: filterTasks('') and filterExpenses('', '').
escapeKey ==
    /\ FormsLive
    /\ taskSearch' = toLowerCase(<<>>)
    /\ tasks' = Arr(tasksAfterRender(tasks.items, taskSearch'))
    /\ filterExpenses("", <<>>)
    /\ lastOp' = Op("filterExpenses")
    /\ Tick
    /\ UNCHANGED <<storage, pc, raised, nextId, faulty>>

\* clear-tasks is clicked: clearAllTasks()
clearAllTasks ==
    /\ FormsLive
    /\ \E answer \in BOOLEAN :
        IF confirmAction(answer)
        THEN \E w1, w2 \in WriteOutcomes :
               /\ storage' = saveState(storage, Arr(<<>>), expenses, w1, w2)
               /\ tasks' = Arr(tasksAfterRender(<<>>, taskSearch))
               /\ lastOp' = [Op("clearAllTasks") EXCEPT !.flag = answer]
        ELSE /\ lastOp' = [Op("clearAllTasks") EXCEPT !.flag = answer]
             /\ UNCHANGED <<tasks, storage>>
    /\ Tick
    /\ UNCHANGED <<expenses, taskSearch, expenseFilters, pc, raised, nextId, faulty>>

\* clear-expenses is clicked: clearAllExpenses()
clearAllExpenses ==
    /\ FormsLive
    /\ \E answer \in BOOLEAN :
        IF confirmAction(answer)
        THEN \E w1, w2 \in WriteOutcomes :
               /\ storage' = saveState(storage, tasks, Arr(<<>>), w1, w2)
               /\ expenses' = Arr(expensesAfterView(<<>>, expenseFilters))
               /\ lastOp' = [Op("clearAllExpenses") EXCEPT !.flag = answer]
        ELSE /\ lastOp' = [Op("clearAllExpenses") EXCEPT !.flag = answer]
             /\ UNCHANGED <<expenses, storage>>
    /\ Tick
    /\ UNCHANGED <<tasks, taskSearch, expenseFilters, pc, raised, nextId, faulty>>

Next ==
    \/ loadState
    \/ initializeApp
    \/ \E form \in TaskFormInputs : addTask(form)
    \/ \E id \in IdInputs : toggleTask(id)
    \/ \E id \in IdInputs : deleteTask(id)
    \/ \E searchText \in SearchInputs : filterTasks(searchText)
    \/ \E form \in ExpenseFormInputs : addExpense(form)
    \/ \E id \in IdInputs : deleteExpense(id)
    \/ \E category \in CategoryFilterInputs : categoryFilterChange(category)
    \/ \E month \in MonthFilterInputs : monthFilterChange(month)
    \/ escapeKey
    \/ clearAllTasks
    \/ clearAllExpenses

\* sortTasks(tasks) is called on an array of tasks
sortTasksCall ==
    /\ pc = "sort"
    /\ lastOp.name = "none"
    /\ tasks' = Arr(sortTasks(tasks.items))
    /\ lastOp' = [Op("sortTasks") EXCEPT !.input = tasks.items]
    /\ UNCHANGED <<expenses, taskSearch, expenseFilters, storage, pc, raised,
                   nextId, now, faulty>>

\* the arrays sortTasks is given: the task at index i has id i
SortTexts == { <<"a">>, <<"b">>, <<"B">> }

SortKeys == [text : SortTexts, priority : PriorityValues, done : BOOLEAN]

SortInput(f) == [i \in DOMAIN f |-> [id |-> i, text |-> f[i].text,
                                      priority |-> f[i].priority, done |-> f[i].done,
                                      createdAt |-> 0]]

InitSort ==
    /\ \E n \in 0..MaxSortLen : \E f \in [1..n -> SortKeys] :
          tasks = Arr(SortInput(f))
    /\ expenses = Arr(<<>>)
    /\ taskSearch = <<>>
    /\ expenseFilters = NoFilters
    /\ storage = [k \in {STORAGE_KEYS.TASKS, STORAGE_KEYS.EXPENSES} |-> Absent]
    /\ pc = "sort"
    /\ raised = ""
    /\ nextId = 1
    /\ now = 0
    /\ faulty = FALSE
    /\ lastOp = Op("none")

NextSort == sortTasksCall

\* sortTasks alone, on every array of at most MaxSortLen tasks
SpecSort == InitSort /\ [][NextSort]_vars

\* localStorage accepts every write
Spec == Init /\ [][Next]_vars

\* localStorage may refuse a write and may hold any text at the start
SpecFaulty == InitFaulty /\ [][Next]_vars

\* ----------------------------------------------------------------- claims

TasksKey == STORAGE_KEYS.TASKS

ExpensesKey == STORAGE_KEYS.EXPENSES

\* the sum of amountCents over the indices in S, in any order
RECURSIVE SumAt(_, _)
SumAt(items, S) ==
    IF S = {} THEN 0
    ELSE LET i == CHOOSE i \in S : TRUE
         IN items[i].amountCents + SumAt(items, S \ {i})

\* a mutating operation has just returned, having mutated
MutationReturned ==
    \/ lastOp.name \in {"addTask", "deleteTask", "addExpense", "deleteExpense"}
    \/ lastOp.name \in {"toggleTask", "clearAllTasks", "clearAllExpenses"} /\ lastOp.flag

\* C1: while writes succeed, right after each mutating operation returns the
\* value stored under organizador_tasks equals state.tasks and the value
\* stored under organizador_expenses equals state.expenses, record for record
\* and in the same order.
C1_StoredEqualsMemory ==
    MutationReturned =>
        /\ storage[TasksKey] = JSONstringify(tasks)
        /\ storage[ExpensesKey] = JSONstringify(expenses)

\* C2: the derived-view operations (the filtering and sortTasks of
\* renderTasks, calculateTaskStats, getFilteredExpenses,
\* calculateExpenseStats, calculateCategoryTotals) leave state.tasks and
\* state.expenses as they were, order included, and leave taskSearch and
\* expenseFilters alone.  The second step of initializeApp calls exactly
\* these operations and nothing else that writes the state.
C2_DerivedViewsLeaveStore ==
    [][lastOp'.name = "initializeApp" =>
          UNCHANGED <<tasks, expenses, taskSearch, expenseFilters>>]_vars

\* C3: deleteTask(id), toggleTask(id) and deleteExpense(id) with an id that
\* no record of the collection has leave the collection as it was (same
\* records, same fields, same order) and raise nothing; so a second delete
\* of an id changes nothing after the first.
C3_UnknownIdChangesNothing ==
    [][/\ (lastOp'.name \in {"deleteTask", "toggleTask"} /\ ~lastOp'.flag)
            => (tasks' = tasks /\ raised' = raised)
       /\ (lastOp'.name = "deleteExpense" /\ ~lastOp'.flag)
            => (expenses' = expenses /\ raised' = raised)]_vars

\* deleteTask has run with an unknown id while a search was set and
\* state.tasks was not in sorted order
C3_Witness ==
    /\ lastOp.name = "deleteTask"
    /\ ~lastOp.flag
    /\ taskSearch # <<>>
    /\ Len(tasks.items) = 4
    /\ tasks.items # sortTasks(tasks.items)

\* C4: calculateExpenseStats().total is the sum of amountCents over the whole
\* expense collection whatever expenseFilters holds, and a call of
\* filterExpenses does not change it.
C4_TotalIgnoresFilters ==
    [][/\ IsArray(expenses') =>
            calculateExpenseStats(expenses'.items, expenseFilters').total
                = SumAt(expenses'.items, DOMAIN expenses'.items)
       /\ lastOp'.name = "filterExpenses" =>
            calculateExpenseStats(expenses'.items, expenseFilters').total
                = calculateExpenseStats(expenses.items, expenseFilters).total]_vars

\* filterExpenses has set a month that no expense is in: the filtered list is
\* empty and the total is still that of the three expenses
C4_Witness ==
    /\ lastOp.name = "filterExpenses"
    /\ expenseFilters.month = <<2024, 4>>
    /\ Len(expenses.items) = 3
    /\ getFilteredExpenses(expenses.items, expenseFilters) = <<>>
    /\ calculateExpenseStats(expenses.items, expenseFilters).total = 4567 + 6500 + 1599

\* an expense passes the active filters: the category filter is empty or its
\* category, the month filter is empty or the year and month of its date
PassesFilters(e, filters) ==
    /\ filters.category = "" \/ e.category = filters.category
    /\ \/ filters.month = <<>>
       \/ (e.dateISO[1] = filters.month[1] /\ e.dateISO[2] = filters.month[2])

\* C5: calculateCategoryTotals() has exactly the five categories as keys and
\* maps each to the sum of amountCents over the expenses of that category
\* that pass the active filters (0 when none passes); an expense dated
\* 2024-03-15 passes the month filter 2024-03 and fails 2024-04.
C5_CategoryTotals ==
    IsArray(expenses) =>
        LET totals == calculateCategoryTotals(expenses.items, expenseFilters)
            passing(c) == {i \in DOMAIN expenses.items :
                              /\ expenses.items[i].category = c
                              /\ PassesFilters(expenses.items[i], expenseFilters)}
        IN /\ DOMAIN totals = {"fijos", "ocio", "comida", "coche", "extras"}
           /\ \A c \in DOMAIN totals : totals[c] = SumAt(expenses.items, passing(c))

\* the month filter 2024-03 is set, the expense of 2024-03-15 counts and an
\* expense of April does not
C5_Witness ==
    /\ lastOp.name = "filterExpenses"
    /\ expenseFilters = [category |-> "", month |-> <<2024, 3>>]
    /\ \E i \in DOMAIN expenses.items :
          /\ expenses.items[i].dateISO = <<2024, 4, 2>>
          /\ expenses.items[i].category = "coche"
    /\ \E i \in DOMAIN expenses.items : expenses.items[i].dateISO = <<2024, 3, 15>>
    /\ calculateCategoryTotals(expenses.items, expenseFilters)["comida"] = 4567
    /\ calculateCategoryTotals(expenses.items, expenseFilters)["coche"] = 6500
    /\ calculateCategoryTotals(expenses.items, expenseFilters)["fijos"] = 0

PriorityRank(p) == IF p = "alta" THEN 3 ELSE IF p = "media" THEN 2 ELSE 1

\* out is a permutation of in ordered as sortTasks promises; the task at
\* index i of in has id i
SortedAsPromised(in, out) ==
    /\ Len(out) = Len(in)
    /\ \A i \in DOMAIN in : \E j \in DOMAIN out : out[j] = in[i]
    /\ \A i, j \in DOMAIN out : i < j =>
          /\ ~(out[i].done /\ ~out[j].done)
          /\ out[i].done = out[j].done =>
                PriorityRank(out[i].priority) >= PriorityRank(out[j].priority)
          /\ (out[i].done = out[j].done /\ out[i].priority = out[j].priority) =>
                localeCompare(out[i].text, out[j].text) <= 0
          /\ (/\ out[i].done = out[j].done
              /\ out[i].priority = out[j].priority
              /\ out[i].text = out[j].text) => out[i].id < out[j].id

\* in holds A (pending, alta), B (pending, media) and C (done, alta)
IsExampleABC(in) ==
    /\ Len(in) = 3
    /\ \E a, b, c \in DOMAIN in :
          /\ {a, b, c} = DOMAIN in
          /\ ~in[a].done /\ in[a].priority = "alta"
          /\ ~in[b].done /\ in[b].priority = "media"
          /\ in[c].done /\ in[c].priority = "alta"

\* C6: sortTasks returns a permutation of its input with every pending task
\* before every done one, equal done values ordered by priority rank
\* descending (alta 3, media 2, baja 1), equal done and priority ordered by
\* text, and tasks equal on all three in their input order; A (pending,
\* alta), B (pending, media), C (done, alta) come out as [A, B, C] from any
\* input order.
C6_SortTasksOrder ==
    lastOp.name = "sortTasks" =>
        /\ SortedAsPromised(lastOp.input, tasks.items)
        /\ IsExampleABC(lastOp.input) =>
              /\ ~tasks.items[1].done /\ tasks.items[1].priority = "alta"
              /\ ~tasks.items[2].done /\ tasks.items[2].priority = "media"
              /\ tasks.items[3].done /\ tasks.items[3].priority = "alta"

\* sortTasks was given [C, B, A] and returned [A, B, C]
C6_Witness ==
    /\ lastOp.name = "sortTasks"
    /\ IsExampleABC(lastOp.input)
    /\ lastOp.input[1].done
    /\ lastOp.input[2].priority = "media"
    /\ tasks.items = <<lastOp.input[3], lastOp.input[2], lastOp.input[1]>>

\* the three built-in tasks, whatever their ids and time
AreSampleTasks(items) ==
    /\ Len(items) = 3
    /\ [i \in 1..3 |-> <<items[i].text, items[i].priority, items[i].done>>]
         = << <<TextRevisar, "alta", FALSE>>, <<TextEjercicio, "media", FALSE>>,
              <<TextLeer, "baja", FALSE>> >>
    /\ Cardinality({items[i].id : i \in 1..3}) = 3

\* the three built-in expenses, whatever their ids
AreSampleExpenses(items) ==
    /\ Len(items) = 3
    /\ [i \in 1..3 |-> <<items[i].description, items[i].amountCents,
                         items[i].category, items[i].dateISO>>]
         = << <<TextSupermercado, 4567, "comida", <<2024, 3, 15>> >>,
              <<TextGasolina, 6500, "coche", <<2024, 3, 14>> >>,
              <<TextNetflix, 1599, "ocio", <<2024, 3, 8>> >> >>
    /\ Cardinality({items[i].id : i \in 1..3}) = 3

\* the stored value is absent, unparseable or an empty list
StoredEmpty(cell) == cell.kind # "json" \/ cell.value = Arr(<<>>)

\* the stored value is a non-empty list
StoredList(cell) == cell.kind = "json" /\ IsArray(cell.value) /\ cell.value.items # <<>>

\* C7: loadState, for each collection on its own: a stored value that is
\* absent, unparseable or an empty list leaves the 3 built-in records in
\* memory and the same 3 records stored under the key; a stored non-empty
\* list is what memory holds afterwards, with no sample added.  So an
\* emptied collection is re-seeded by the next load.
C7_LoadSeedsEmpty ==
    [][lastOp'.name = "loadState" =>
        /\ StoredEmpty(storage[TasksKey]) =>
              /\ AreSampleTasks(tasks'.items)
              /\ storage'[TasksKey] = JSONstringify(tasks')
        /\ StoredList(storage[TasksKey]) =>
              /\ tasks' = storage[TasksKey].value
              /\ storage'[TasksKey] = storage[TasksKey]
        /\ StoredEmpty(storage[ExpensesKey]) =>
              /\ AreSampleExpenses(expenses'.items)
              /\ storage'[ExpensesKey] = JSONstringify(expenses')
        /\ StoredList(storage[ExpensesKey]) =>
              /\ expenses' = storage[ExpensesKey].value
              /\ storage'[ExpensesKey] = storage[ExpensesKey]]_vars

\* the tasks were emptied and a later load seeded them again (with new ids),
\* while the stored expenses were loaded as they were
C7_Witness ==
    /\ lastOp.name = "loadState"
    /\ lastOp.flag
    /\ pc = "loaded"
    /\ AreSampleTasks(tasks.items)
    /\ tasks.items[1].id > 6
    /\ storage[TasksKey] = JSONstringify(tasks)
    /\ Len(expenses.items) = 3
    /\ expenses.items[1].id <= 6

\* C8 as written: clearAllTasks() empties the task collection and
\* clearAllExpenses() the expense collection whatever the confirmation
\* answer, the emptied collection is persisted and the other collection is
\* unchanged.
C8_ClearsWhateverTheAnswer ==
    [][/\ lastOp'.name = "clearAllTasks" =>
            /\ tasks' = Arr(<<>>)
            /\ storage'[TasksKey] = JSONstringify(Arr(<<>>))
            /\ expenses' = expenses
       /\ lastOp'.name = "clearAllExpenses" =>
            /\ expenses' = Arr(<<>>)
            /\ storage'[ExpensesKey] = JSONstringify(Arr(<<>>))
            /\ tasks' = tasks]_vars

\* C8, amended: when the confirmation is accepted clearAllTasks() empties the
\* task collection and clearAllExpenses() the expense collection, the emptied
\* collection is persisted (the write succeeding) and the other collection is
\* unchanged; when the confirmation is declined the call changes neither
\* collection nor what is stored.
C8_ClearsWhenConfirmed ==
    [][/\ (lastOp'.name = "clearAllTasks" /\ lastOp'.flag) =>
            /\ tasks' = Arr(<<>>)
            /\ storage'[TasksKey] = JSONstringify(Arr(<<>>))
            /\ expenses' = expenses
       /\ (lastOp'.name = "clearAllExpenses" /\ lastOp'.flag) =>
            /\ expenses' = Arr(<<>>)
            /\ storage'[ExpensesKey] = JSONstringify(Arr(<<>>))
            /\ tasks' = tasks
       /\ (lastOp'.name \in {"clearAllTasks", "clearAllExpenses"} /\ ~lastOp'.flag) =>
            UNCHANGED <<tasks, expenses, storage>>]_vars

\* clearAllTasks was confirmed: the tasks are gone, in memory and in storage,
\* and the three expenses are still there
C8_Witness ==
    /\ lastOp.name = "clearAllTasks"
    /\ lastOp.flag
    /\ tasks = Arr(<<>>)
    /\ storage[TasksKey] = JSONstringify(Arr(<<>>))
    /\ Len(expenses.items) = 3

MutatingOps == {"addTask", "toggleTask", "deleteTask", "clearAllTasks",
                "addExpense", "deleteExpense", "clearAllExpenses"}

\* C9: whatever the two keys hold (nothing, unparseable text, the text of any
\* value, list or not) and whether writes succeed or fail, loadState and the
\* mutating operations run to completion and raise nothing; a write either
\* stores the value or leaves what was stored, and a read that fails or
\* finds nothing gives the empty default, which the samples then replace.
C9_NothingIsRaised ==
    [][/\ lastOp'.name \in MutatingOps \cup {"loadState"} =>
            /\ raised' \in {"", raised}
            /\ \A k \in {TasksKey, ExpensesKey} :
                  storage'[k] = storage[k] \/ storage'[k].kind = "json"
       /\ (lastOp'.name = "loadState" /\ storage[TasksKey].kind # "json") =>
            AreSampleTasks(tasks'.items)
       /\ (lastOp'.name = "loadState" /\ storage[ExpensesKey].kind # "json") =>
            AreSampleExpenses(expenses'.items)]_vars

\* c is a nearest whole number of cents to milli thousandths of a euro
NearestCent(milli, c) == 10 * c - milli \in -5..5

C11_TaskStats ==
    [][/\ IsArray(tasks') =>
            LET stats == calculateTaskStats(tasks'.items)
                doneAt == {i \in DOMAIN tasks'.items : tasks'.items[i].done}
                openAt == {i \in DOMAIN tasks'.items : ~tasks'.items[i].done}
            IN /\ stats.total = Cardinality(DOMAIN tasks'.items)
               /\ stats.completed = Cardinality(doneAt)
               /\ stats.pending = Cardinality(openAt)
               /\ stats.total = stats.completed + stats.pending
       /\ lastOp'.name = "filterTasks" =>
            calculateTaskStats(tasks'.items) = calculateTaskStats(tasks.items)]_vars

\* filterTasks has set a search text that only one of three tasks matches,
\* one task is done: the counts are still those of the whole collection
C11_Witness ==
    /\ lastOp.name = "filterTasks"
    /\ taskSearch = <<"b">>
    /\ Len(tasks.items) = 3
    /\ Len(renderedTasks(tasks.items, taskSearch)) = 1
    /\ calculateTaskStats(tasks.items) = [total |-> 3, completed |-> 1, pending |-> 2]

====
